---- MODULE Spec2Model ----
(***************************************************************************)
(* CP_DF_ALS (src/btas/generic/cp_df_als.h): the rank-growth drivers, the  *)
(* incremental build of the factor matrices and the ALS sweep loop, as a   *)
(* state machine.  A tensor is modelled by its extents and by one content  *)
(* tag per column (matrix) or per entry (vector) that records which step  *)
(* wrote it; the results of LAPACK calls and of the convergence test are   *)
(* nondeterministic.  NDIterator (src/btas/nditerator.h) is modelled next  *)
(* to it and exercised by a specification of its own, IterSpec.            *)
(***************************************************************************)
EXTENDS Integers, Sequences, FiniteSets, TLC

(* ------------------------------ bounds -------------------------------- *)
MaxRank == 3        \* largest rank / SVD_rank / max_rank argument
MaxStep == 2        \* largest step / geometric_step argument
MaxSweeps == 2      \* largest max_als argument
MaxNumALS == 1      \* a build is asked of an engine whose num_ALS is at most this
MaxOrder == 3       \* largest number of modes of an iterated shape
MaxExtent == 2      \* largest extent of an iterated shape
MaxDiff == 3        \* largest step handed to += and -=
\* paneled_tucker_build is only started if it ends with at most MaxCols columns
MaxCols == MaxRank + 1

(* ------------------------------ tensors ------------------------------- *)
\* btas::Tensor: extents, and a content tag per column (order 2) or entry (order 1)
Tensor(ext, val) == [ext |-> ext, val |-> val]
DefaultTensor == Tensor(<<>>, <<>>)
Fill(n, tag) == [k \in 1..n |-> tag]
Matrix(rows, tags) == Tensor(<<rows, Len(tags)>>, tags)
Vector(tags) == Tensor(<<Len(tags)>>, tags)
extent(t, k) == t.ext[k + 1]
order(t) == Len(t.ext)
RECURSIVE Prod(_, _)
Prod(seq, k) == IF k > Len(seq) THEN 1 ELSE seq[k] * Prod(seq, k + 1)
\* Tensor::size(): the number of elements
size(t) == Prod(t.ext, 1)
\* Tensor::resize(range) to a range of the same size: new extents, same elements
resize(t, ext) == Tensor(ext, t.val)

\* content tags: where the numbers of a column or entry come from
Tag(name) == <<name, 0, 0>>
\* the column of mode n solved and normalised in a sweep of the given count:
\* consecutive sweeps and different modes give different numbers
DirectTag(n, count) == <<"direct", n, count % 2>>

\* the reference-tensor pairs decomposed: extents, connecting dimension first
RefPairs ==
  { [L |-> <<2, 3>>, R |-> <<2, 3>>],
    [L |-> <<3, 2, 2>>, R |-> <<3, 2>>],
    [L |-> <<2, 2, 2, 2>>, R |-> <<2, 2>>] }

\* what the left reference tensor holds: data, or zero in every element
RefFills == {"data", "zero"}
\* the pair decomposed with an all-zero left tensor
ZeroPair == [L |-> <<2, 3>>, R |-> <<2, 3>>]
\* the pair decomposed by an engine whose convergence test is a FitCheck, with
\* its last mode aliased to the one before it
FitPair == [L |-> <<3, 2, 2>>, R |-> <<3, 2>>]
\* the pair with three free modes on the left, decomposed without symmetry
WidePair == [L |-> <<2, 2, 2, 2>>, R |-> <<2, 2>>]

\* symmetry maps handed to the constructor for n modes: no symmetry, every
\* mode aliased to the one before it, the last mode aliased to the one before
\* it, mode 0 aliased forward, and the last mode given a negative value
SymmMaps(n) ==
  { [i \in 0..(n - 1) |-> i],
    [i \in 0..(n - 1) |-> IF i = 0 THEN 0 ELSE i - 1],
    [i \in 0..(n - 1) |-> IF i = n - 1 THEN i - 1 ELSE i],
    [i \in 0..(n - 1) |-> IF i = 0 THEN 1 ELSE i],
    [i \in 0..(n - 1) |-> IF i = n - 1 THEN -1 ELSE i] }

VARIABLES
  A,                 \* std::vector<Tensor> A
  tensor_ref_left,   \* Tensor & tensor_ref_left
  tensor_ref_right,  \* Tensor & tensor_ref_right
  symm_dims,         \* std::vector<int> & symm_dims
  ndimL, ndimR,      \* const int ndimL, ndimR
  ConvClass,         \* template parameter ConvClass: the type of the convergence test
  num_ALS,           \* int num_ALS
  pc,                \* position of the running public call, "idle" between calls
  call,              \* the public call in progress or last made, with its arguments
  ret,               \* how the last public call ended and what it returned
  drv,               \* locals of the driver: rank, epsilon, count, max_dim
  bld,               \* locals of build: rank, step, i, opt_in_for_loop
  als,               \* locals of ALS: rank, count, is_converged, matlab, i, site
  seed_failed,       \* a spectral seed has thrown after replacing A
  it                 \* an NDIterator (nditerator.h), exercised on its own

vars == <<A, tensor_ref_left, tensor_ref_right, symm_dims, ndimL, ndimR, ConvClass, num_ALS,
          pc, call, ret, drv, bld, als, seed_failed, it>>

engine == <<A, tensor_ref_left, tensor_ref_right, symm_dims, ndimL, ndimR, ConvClass, num_ALS>>

ndim == ndimL + ndimR - 2
\* build finishing with an optimisation at the target rank whenever its loop made none
factors_set_always == TRUE
\* bool factors_set = false (line 395), assigned nowhere
factors_set == FALSE

\* A[k] of the source (0-based)
At(k) == A[k + 1]

NoCall ==
  [op |-> "none", rank |-> 0, step |-> 0, SVD_initial_guess |-> FALSE, SVD_rank |-> 0,
   max_als |-> 0, fast_pI |-> FALSE, calculate_epsilon |-> FALSE, tcutCP |-> 0,
   max_rank |-> 0, RankStep2 |-> 0, panels |-> 0, tests |-> 0]
NoRet == [status |-> "none", value |-> 0, factors |-> <<>>]
NoDrv == [rank |-> 0, epsilon |-> 0, count |-> 0, max_dim |-> 0, cols0 |-> 0,
          cols_call |-> 0, als_calls |-> 0, refs0 |-> <<>>, als_log |-> <<>>]
NoBld == [rank |-> 0, step |-> 0, SVD_initial_guess |-> FALSE, SVD_rank |-> 0, i |-> 0,
          opt_in_for_loop |-> FALSE]
NoAls == [rank |-> 0, count |-> 0, is_converged |-> FALSE, matlab |-> FALSE, i |-> 0,
          site |-> "none", handed |-> 0, MtKRP |-> <<>>, solver |-> "none"]

(* --------------------------- pure helpers ----------------------------- *)
\* extent of mode n of the decomposed tensor, read from the reference tensor
\* that holds it (direct: leftTensor, nInTensor; build: lines 551-556)
ExtentOfMode(n) ==
  IF n < ndimL - 1 THEN extent(tensor_ref_left, n + 1)
  ELSE extent(tensor_ref_right, n - ndimL + 2)

\* the container as every consumer indexes it: ndim matrices, then the weights
ContainerOK(S) ==
  /\ Len(S) = ndim + 1
  /\ \A k \in 1..ndim : order(S[k]) = 2
  /\ order(S[ndim + 1]) = 1

\* build, i == 0: create rank-1 factors filled with rand(), normalised, then lambda
RECURSIVE NewFactors(_, _)
NewFactors(S, j) ==
  IF j = ndim THEN S
  ELSE LET a == Matrix(ExtentOfMode(j), <<Tag("fill")>>)
           S1 == Append(S, a)
           S2 == IF j = ndim - 1 THEN Append(S1, Vector(<<Tag("lam")>>)) ELSE S1
       IN NewFactors(S2, j + 1)

\* the extension of build without the replacement of the weight vector
RECURSIVE ExtendFactors_nolambda(_, _, _)
ExtendFactors_nolambda(S, j, cols) ==
  IF j = ndim THEN S
  ELSE LET row_extent == extent(S[1], 0)
           rank_old == extent(S[1], 1)
           b == Matrix(row_extent,
                       [k \in 1..cols |-> IF k <= rank_old THEN S[1].val[k] ELSE Tag("rnd")])
       IN ExtendFactors_nolambda(Append(Tail(S), b), j + 1, cols)

\* an extension that fills the whole new matrix with random numbers
RECURSIVE ExtendFactors_fresh(_, _, _)
ExtendFactors_fresh(S, j, cols) ==
  IF j = ndim THEN S
  ELSE LET row_extent == extent(S[1], 0)
           b == Matrix(row_extent, [k \in 1..cols |-> Tag("rnd")])
           S1 == Append(Tail(S), b)
           lam == Vector([k \in 1..cols |->
                            IF k <= extent(S1[1], 0) THEN S1[1].val[k] ELSE b.val[k]])
           S2 == IF j + 1 = ndim THEN Append(Tail(S1), lam) ELSE S1
       IN ExtendFactors_fresh(S2, j + 1, cols)

\* build, i > 0: for each mode copy the front factor into a matrix with `cols`
\* columns, random-fill the new columns, erase the front and push the copy back;
\* after the last mode do the same with the weight vector
RECURSIVE ExtendFactors(_, _, _)
ExtendFactors(S, j, cols) ==
  IF j = ndim THEN S
  ELSE LET row_extent == extent(S[1], 0)
           rank_old == extent(S[1], 1)
           b == Matrix(row_extent,
                       [k \in 1..cols |-> IF k <= rank_old THEN S[1].val[k] ELSE Tag("rnd")])
           S1 == Append(Tail(S), b)
           lam == Vector([k \in 1..cols |->
                            IF k <= extent(S1[1], 0) THEN S1[1].val[k] ELSE b.val[k]])
           S2 == IF j + 1 = ndim THEN Append(Tail(S1), lam) ELSE S1
       IN ExtendFactors(S2, j + 1, cols)

\* build, spectral seed, lines 438-447: the indices of TRdims the two loops
\* write, in the order they write them
TRdimsWrites ==
  [w \in 1..(ndimL - 1) |-> w - 1] \o [w \in 1..(ndimR - 1) |-> w + ndimR - 2]

\* build, spectral seed: the extent table TRdims as the two loops write it
TRdims ==
  [k \in 0..(ndim - 1) |->
     IF \E i \in 1..(ndimR - 1) : i + ndimR - 2 = k
       THEN extent(tensor_ref_right, k - ndimR + 2)
     ELSE IF k + 1 <= ndimL - 1 THEN extent(tensor_ref_left, k + 1)
     ELSE 0]
TRdimsInRange == \A i \in 1..(ndimR - 1) : i + ndimR - 2 <= ndim - 1

\* build, spectral seed: factor of mode k, eigenvectors then random columns,
\* every column divided by its norm (lines 528-530)
SeedFactor(k, SVD_rank) ==
  Matrix(TRdims[k], [c \in 1..SVD_rank |-> IF c <= TRdims[k] THEN Tag("eig") ELSE Tag("nrnd")])
SeedFactors(SVD_rank) ==
  [k \in 1..ndim |-> SeedFactor(k - 1, SVD_rank)] \o <<Vector(Fill(SVD_rank, Tag("nrm")))>>
\* the seed's collaborators: (gemm succeeds, info of LAPACKE_dsyev, the mode
\* in which it fails)
SeedFaults ==
  {<<TRUE, 0, 0>>, <<FALSE, 0, 0>>} \cup {<<TRUE, 1, f>> : f \in 0..(ndim - 1)}
\* the container left behind when LAPACKE_dsyev fails in mode f
SeedPartial(f, SVD_rank) ==
  [k \in 1..ndim |->
     IF k - 1 < f THEN SeedFactor(k - 1, SVD_rank)
     ELSE IF k = 1 THEN Matrix(TRdims[0], Fill(SVD_rank, Tag("zero")))
     ELSE DefaultTensor]

\* both reference tensors have the number of modes they were constructed with
RefsIntact == order(tensor_ref_left) = ndimL /\ order(tensor_ref_right) = ndimR

\* direct: every other factor is read as an (extent x rank) matrix, the
\* replaced one gives the range of `an`, the weights take `rank` norms
FactorShapesOK(n, rank) ==
  /\ RefsIntact
  /\ ContainerOK(A)
  /\ \A m \in 0..(ndim - 1) : m # n => At(m).ext = <<ExtentOfMode(m), rank>>
  /\ order(At(n)) = 2
  /\ extent(At(ndim), 0) >= rank

\* direct, line 700
leftTensor(n) == n < ndimL - 1
\* direct, line 804: the position of mode n among the free modes of its tensor
nInTensor(n) == IF leftTensor(n) THEN n ELSE n - ndimL + 1

\* direct, lines 792-796: dims, the free extents of tensor_ref and then rank
WalkDims(t, rank) ==
  [c \in 0..(order(t) - 1) |-> IF c = order(t) - 1 THEN rank ELSE extent(t, c + 1)]

\* direct, lines 810-861: pass i of the Hadamard loop on the walk state w: the
\* shape of contract_tensor, pseudo_rank, offset, contract_dim and a_dim,
\* whether every resize so far kept the number of elements (sizes_kept) and
\* every read of a factor stayed inside its rows and `rank` columns (in_range)
WalkPass(w, t, nIn, rank) ==
  LET contract_size == WalkDims(t, rank)[w.contract_dim]
      LH_size == size(t) \div extent(t, 0)
      idx1 == LH_size \div contract_size
      kept == w.sizes_kept /\ Prod(w.shape, 1) = idx1 * contract_size * w.pseudo_rank
      rows == extent(At(w.a_dim), 0)
      next == [w EXCEPT !.contract_dim = @ - 1, !.a_dim = @ - 1, !.sizes_kept = kept]
  IN IF nIn = w.contract_dim
       THEN [next EXCEPT !.shape = <<idx1, contract_size, w.pseudo_rank>>,
                         !.pseudo_rank = @ * contract_size,
                         !.offset = contract_size]
     ELSE IF w.contract_dim > nIn
       THEN [next EXCEPT !.shape = <<idx1, w.pseudo_rank>>,
                         !.in_range = @ /\ contract_size <= rows]
     ELSE [next EXCEPT !.shape = <<idx1, w.pseudo_rank>>,
                       !.in_range = @ /\ contract_size <= rows /\ w.offset * rank <= rank]

RECURSIVE WalkLoop(_, _, _, _, _)
WalkLoop(w, i, t, nIn, rank) ==
  IF i >= order(t) - 2 THEN w
  ELSE WalkLoop(WalkPass(w, t, nIn, rank), i + 1, t, nIn, rank)

\* direct, lines 868-886: if n is not the first free mode the first one is
\* contracted out of the three-index intermediate
WalkLast(w, nIn, rank) ==
  IF nIn = 0 THEN w
  ELSE [w EXCEPT !.shape = <<w.offset, rank>>,
                 !.in_range = /\ @
                              /\ Len(w.shape) = 3
                              /\ w.shape[1] <= extent(At(w.a_dim), 0)]

\* direct, lines 780-886: the walk that turns the contraction of tensor_ref
\* with K into the MTTKRP of mode n
HadamardWalk(n, rank) ==
  LET t == IF leftTensor(n) THEN tensor_ref_left ELSE tensor_ref_right
      w0 == [shape |-> <<size(t) \div extent(t, 0), rank>>,
             pseudo_rank |-> rank, offset |-> 0,
             contract_dim |-> order(t) - 2,
             a_dim |-> IF leftTensor(n) THEN order(t) - 2 ELSE ndim - 1,
             sizes_kept |-> TRUE, in_range |-> TRUE]
  IN WalkLast(WalkLoop(w0, 0, t, nInTensor(n), rank), nInTensor(n), rank)

\* the walk of mode n is sound and gives an (extent x rank) matrix
WalkOK(n, rank) ==
  LET w == HadamardWalk(n, rank)
  IN w.sizes_kept /\ w.in_range /\ w.shape = <<ExtentOfMode(n), rank>>

\* direct reads and writes inside its tensors
DirectShapesOK(n, rank) == FactorShapesOK(n, rank) /\ WalkOK(n, rank)
\* direct, line 728: the tensor without mode n as (size / last extent) x (last extent)
FlattenLast(t) ==
  resize(t, <<size(t) \div extent(t, order(t) - 1), extent(t, order(t) - 1)>>)
\* direct, line 786, and the seed, lines 458-459: (connecting extent) x (the rest)
FlattenFirst(t) == resize(t, <<extent(t, 0), size(t) \div extent(t, 0)>>)
\* a contraction that leaves the 2-D shape in place
RestoreRange_keep(t, R) == t
\* direct, lines 733 and 790, and the seed, lines 465-466: tensor_ref.resize(R)
RestoreRange(t, R) == resize(t, R)

\* the collaborator calls of direct that can fail: the two gemm calls made
\* while a reference tensor is reshaped, and the SVD of pseudoInverse
DirectFailures == {"none", "gemm1", "gemm2", "svd"}
\* the result of LAPACKE_dgesv with the failure injected: the SVD is only
\* reached after a failed or skipped solve
DirectFaults == {<<0, "none">>, <<1, "none">>, <<0, "gemm1">>, <<0, "gemm2">>, <<1, "svd">>}

\* direct, lines 706-790: both reference tensors after the two contractions,
\* of which `fail` throws: <<tensor_ref_left, tensor_ref_right>>
RefsAfterDirect(n, fail) ==
  LET other == IF leftTensor(n) THEN tensor_ref_right ELSE tensor_ref_left
      own == IF leftTensor(n) THEN tensor_ref_left ELSE tensor_ref_right
      other1 == FlattenLast(other)
      other2 == IF fail = "gemm1" THEN other1 ELSE RestoreRange(other1, other.ext)
      own1 == IF fail = "gemm1" THEN own ELSE FlattenFirst(own)
      own2 == IF fail \in {"gemm1", "gemm2"} THEN own1 ELSE RestoreRange(own1, own.ext)
  IN IF leftTensor(n) THEN <<own2, other2>> ELSE <<other2, own2>>

\* a mode update that tries the square solve whatever matlab says
TriesSolve_retry(matlab) == TRUE
\* direct, line 895: if (matlab), the square solve is tried only while matlab holds
TriesSolve(matlab) == matlab
\* what the mode update called to make the new factor: LAPACKE_dgesv alone,
\* pseudoInverse alone, or pseudoInverse after a failed LAPACKE_dgesv
Solver(tried, info) ==
  IF ~tried THEN "pseudoInverse" ELSE IF info = 0 THEN "dgesv" ELSE "both"

\* a mode update that gives up when the square solve fails
SolveOutcome_propagate(matlab, info, svd_ok) ==
  IF matlab /\ info = 0 THEN "solved"
  ELSE IF matlab THEN "SolveFailure"
  ELSE IF svd_ok THEN "fallback"
  ELSE "ComputationFailure"
\* direct, lines 895-915: the square solve if matlab, the pseudo-inverse if
\* matlab is false or the solve fails; the exception of pseudoInverse (lines
\* 1037-1046) if its SVD fails
SolveOutcome(matlab, info, svd_ok) ==
  IF matlab /\ info = 0 THEN "solved"
  ELSE IF svd_ok THEN "fallback"
  ELSE "ComputationFailure"

\* the decomposed tensor is zero: every MTTKRP is zero, and so is every solved column
ZeroRefs == tensor_ref_left.val = <<Tag("zero")>>

\* direct, line 903: LAPACKE_dgesv solves in place, contract_tensor holds the
\* solution if info = 0 and is left as it was if the factorisation fails
SolveInPlace(matlab, info, b) == IF matlab /\ info = 0 THEN Tag("solution") ELSE b
\* direct, lines 904-915: the new factor is the solution, or the product of
\* contract_tensor as the solve left it with the pseudo-inverse
SolvedColumn(outcome, b, v) ==
  IF outcome = "solved" \/ b = Tag("mttkrp") THEN v ELSE Tag("garbage")

\* some factor other than mode n holds NaN: so do V and the MTTKRP
Poisoned(n) ==
  \E m \in 0..(ndim - 1) : m # n /\ \E k \in 1..Len(At(m).val) : At(m).val[k] = Tag("nan")

\* normCol(Tensor &), lines 984-1000: every column is divided by its norm,
\* which is stored in A[ndim]; a zero column is divided by zero
NormOf(zero, nan, v) == IF nan THEN Tag("nan") ELSE IF zero THEN Tag("zero") ELSE v
Normalised(zero, nan, v) == IF zero \/ nan THEN Tag("nan") ELSE v

\* the convergence tests an engine is instantiated with (template parameter
\* ConvClass, line 80; NormCheck is the default)
ConvClasses == {"NormCheck", "FitCheck"}

\* direct handing contract_tensor over after the solve instead of before it
set_MtKRP_late(conv, before, after, held) ==
  IF conv = "FitCheck" THEN [handed |-> held.handed + 1, MtKRP |-> after] ELSE held
\* direct, lines 888-890: if typeid(converge_test) is FitCheck<Tensor> the test
\* receives contract_tensor as it stands before the solve; `before` and `after`
\* are contract_tensor on either side of LAPACKE_dgesv, `held` is what the test
\* received so far in this ALS
set_MtKRP(conv, before, after, held) ==
  IF conv = "FitCheck" THEN [handed |-> held.handed + 1, MtKRP |-> before] ELSE held

\* direct(n, rank, matlab) in the sweep numbered count, once both contractions
\* are done: info is the result of LAPACKE_dgesv, svd_ok that of the SVD in
\* pseudoInverse.  Gives the new container, matlab, and "ok" or the exception
\* thrown.
direct(n, rank, matlab, info, svd_ok, count) ==
  LET v == DirectTag(n, count)
      zero == ZeroRefs
      tried == TriesSolve(matlab)
      outcome == SolveOutcome(tried, info, svd_ok)
      b == SolveInPlace(tried, info, Tag("mttkrp"))
      col == Normalised(zero, Poisoned(n), SolvedColumn(outcome, b, v))
      an == IF outcome = "solved" THEN Matrix(ExtentOfMode(n), Fill(rank, col))
            ELSE Tensor(At(n).ext, Fill(extent(At(n), 1), col))
      lam == Vector([k \in 1..extent(At(ndim), 0) |->
                       IF k <= extent(an, 1) THEN NormOf(zero, Poisoned(n), v)
                       ELSE Tag("zero")])
  IN [A |-> [A EXCEPT ![n + 1] = an, ![ndim + 1] = lam],
      matlab |-> tried /\ info = 0,
      solver |-> Solver(tried, info),
      status |-> IF outcome \in {"solved", "fallback"} THEN "ok" ELSE outcome,
      test |-> set_MtKRP(ConvClass, Tag("mttkrp"), b, [handed |-> als.handed, MtKRP |-> als.MtKRP])]

(* ------------------------------ NDIterator ---------------------------- *)
\* nditerator.h: an iterator is its shape_, stride_ and index_ (indexed from
\* 0 as in the source) and current_, kept as the distance from start_; op is
\* the operator applied last
NoIter == [shape |-> <<>>, stride |-> <<>>, index |-> <<>>, current |-> 0, op |-> "none"]

\* shape_.size()
Order(shape) == Cardinality(DOMAIN shape)

\* the shapes iterated: every extent after the first is at least 1 (the
\* constructor that takes an index asserts index_[i] < shape_[i], lines 111-115)
Shapes ==
  { s \in UNION { [0..(N - 1) -> 0..MaxExtent] : N \in 1..MaxOrder } :
      \A i \in DOMAIN s : i >= 1 => s[i] >= 1 }

RECURSIVE StrideLoop(_, _, _, _)
\* __set__stride, lines 324-333: the loop from i down to 1, then stride_[0] = str
StrideLoop(shape, stride, str, i) ==
  IF i = 0 THEN [stride EXCEPT ![0] = str]
  ELSE StrideLoop(shape, [stride EXCEPT ![i] = str], str * shape[i], i - 1)
set_stride(shape) ==
  StrideLoop(shape, [i \in DOMAIN shape |-> 0], 1, Order(shape) - 1)

RECURSIVE AddressLoop(_, _, _)
\* __get__address, lines 336-345: offset += stride_[i] * index_[i] from mode i on
AddressLoop(stride, index, i) ==
  IF i = Order(stride) THEN 0
  ELSE stride[i] * index[i] + AddressLoop(stride, index, i + 1)
get_address(stride, index) == AddressLoop(stride, index, 0)

\* NDIterator(start, shape), lines 93-100: index 0, current_ = start_
NDIterator(shape) ==
  [shape |-> shape, stride |-> set_stride(shape), index |-> [i \in DOMAIN shape |-> 0],
   current |-> 0, op |-> "new"]

\* a carry that forgets the distance walked back in the mode that wrapped
CarryOffset_flat(stride, shape, i) == stride[i - 1]
\* __increment line 405 and __decrement line 446: what moving up from mode i
\* adds to the offset
CarryOffset(stride, shape, i) == stride[i - 1] - stride[i] * shape[i]

RECURSIVE IncrementLoop(_, _, _, _)
\* __increment, lines 397-406: the loop from mode i down; gives the index,
\* the offset and the mode at which it stopped
IncrementLoop(x, index, offset, i) ==
  IF i = 0 THEN [index |-> index, offset |-> offset, i |-> 0]
  ELSE IF index[i] + 1 < x.shape[i]
    THEN [index |-> [index EXCEPT ![i] = @ + 1], offset |-> offset, i |-> i]
  ELSE IncrementLoop(x, [index EXCEPT ![i] = 0],
                     offset + CarryOffset(x.stride, x.shape, i), i - 1)

\* __increment, lines 384-419
increment(x) ==
  IF x.index[0] = x.shape[0] THEN x
  ELSE LET N == Order(x.shape)
           r == IncrementLoop(x, x.index, x.stride[N - 1], N - 1)
           top == [r.index EXCEPT ![0] = @ + 1]
       IN IF r.i = 0
            THEN [x EXCEPT !.index = top, !.current = get_address(x.stride, top)]
            ELSE [x EXCEPT !.index = r.index, !.current = @ + r.offset]

RECURSIVE DecrementLoop(_, _, _, _)
\* __decrement, lines 433-447: the loop from mode i down
DecrementLoop(x, index, offset, i) ==
  IF i = 0 THEN [index |-> index, offset |-> offset, i |-> 0]
  ELSE IF index[i] > 0
    THEN [index |-> [index EXCEPT ![i] = @ - 1], offset |-> offset, i |-> i]
  ELSE DecrementLoop(x, [index EXCEPT ![i] = x.shape[i] - 1],
                     offset + CarryOffset(x.stride, x.shape, i), i - 1)

\* __decrement, lines 421-460: nothing at current_ == start_
decrement(x) ==
  IF x.current = 0 THEN x
  ELSE LET N == Order(x.shape)
           r == DecrementLoop(x, x.index, x.stride[N - 1], N - 1)
           top == [r.index EXCEPT ![0] = @ - 1]
       IN IF r.i = 0
            THEN [x EXCEPT !.index = top, !.current = get_address(x.stride, top)]
            ELSE [x EXCEPT !.index = r.index, !.current = @ - r.offset]

RECURSIVE PositionLoop(_, _, _)
\* __diff__index, lines 350-355: pos = pos * shape_[i] + index_[i] from mode i on
PositionLoop(x, pos, i) ==
  IF i = Order(x.shape) THEN pos
  ELSE PositionLoop(x, pos * x.shape[i] + x.index[i], i + 1)

RECURSIVE IndexLoop(_, _, _, _)
\* __diff__index, lines 363-367: index_[i] = pos % shape_[i]; pos /= shape_[i]
\* from mode i down to 1; gives the index and what is left of pos
IndexLoop(x, index, pos, i) ==
  IF i = 0 THEN [index |-> index, pos |-> pos]
  ELSE IndexLoop(x, [index EXCEPT ![i] = pos % x.shape[i]], pos \div x.shape[i], i - 1)

\* __diff__index(n), lines 347-382
diff_index(x, n) ==
  LET pos == PositionLoop(x, x.index[0], 1) + n
      r == IndexLoop(x, x.index, pos, Order(x.shape) - 1)
      index == IF pos <= 0 THEN [i \in DOMAIN x.shape |-> 0]
               ELSE IF r.pos < x.shape[0] THEN [r.index EXCEPT ![0] = r.pos]
               ELSE [i \in DOMAIN x.shape |-> IF i = 0 THEN x.shape[0] ELSE 0]
  IN [x EXCEPT !.index = index, !.current = get_address(x.stride, index)]

\* CP_DF_ALS(left, right, symm): empty factor set, num_ALS = 0
Init ==
  /\ \E p \in RefPairs, fill \in RefFills :
       /\ tensor_ref_left = Tensor(p.L, <<Tag(fill)>>)
       /\ tensor_ref_right = Tensor(p.R, <<Tag("data")>>)
       /\ ndimL = Len(p.L)
       /\ ndimR = Len(p.R)
       /\ symm_dims \in SymmMaps(Len(p.L) + Len(p.R) - 2)
       /\ fill = "zero" => (p = ZeroPair /\ symm_dims = [i \in 0..1 |-> i])
       /\ p = WidePair => symm_dims = [i \in 0..3 |-> i]
       /\ ConvClass \in ConvClasses
       /\ ConvClass = "FitCheck" => (p = FitPair /\ fill = "data" /\ symm_dims = [i \in 0..2 |-> IF i = 2 THEN 1 ELSE i])
  /\ A = <<>>
  /\ num_ALS = 0
  /\ pc = "idle"
  /\ call = NoCall
  /\ ret = NoRet
  /\ drv = NoDrv
  /\ bld = NoBld
  /\ als = NoAls
  /\ seed_failed = FALSE
  /\ it = NoIter


(* ------------------------------ arguments ----------------------------- *)
RankArgs == 0..MaxRank
StepArgs == 1..MaxStep
GeoStepArgs == 0..MaxStep
MaxAlsArgs == {MaxSweeps}
\* (SVD_initial_guess, SVD_rank)
SvdArgs == ({FALSE} \X {0, MaxRank}) \cup ({TRUE} \X {0, 1, MaxRank})
SvdLoopArgs == {<<FALSE, 0>>, <<TRUE, 0>>, <<TRUE, 1>>}
\* (fast_pI, calculate_epsilon)
FlagArgs == {<<TRUE, FALSE>>, <<FALSE, TRUE>>}
TcutArgs == {0, 2}
RankStepArgs == {0, 1, 2}     \* RankStep in halves: 0, 0.5, 1.0
PanelArgs == {1, 2}

Cols == IF A = <<>> THEN 0 ELSE extent(At(0), 1)

\* the locals of a driver at its entry, with what the engine held at the call:
\* the column count (cols_call; cols0 is renewed by every round) and both
\* reference tensors (refs0); als_calls counts the ALS invocations made on
\* behalf of the call and als_log lists them
NewDrv ==
  [NoDrv EXCEPT !.cols0 = Cols, !.cols_call = Cols,
                !.refs0 = <<tensor_ref_left, tensor_ref_right>>]

(* ------------------------- control-flow helpers ----------------------- *)
\* BTAS_EXCEPTION leaving the public call
Throw(status) ==
  /\ pc' = "done"
  /\ ret' = [NoRet EXCEPT !.status = status]
  /\ bld' = NoBld
  /\ als' = NoAls

\* an access outside a tensor or the container: the behaviour is undefined
Undefined ==
  /\ pc' = "undefined"
  /\ ret' = [NoRet EXCEPT !.status = "undefined"]
  /\ bld' = NoBld
  /\ als' = NoAls

Return(value) ==
  /\ pc' = "done"
  /\ ret' = [NoRet EXCEPT !.status = "returned", !.value = value]
  /\ bld' = NoBld
  /\ als' = NoAls

\* the first value of build's loop variable (line 542)
ForInit(S) == IF S = <<>> THEN 0 ELSE extent(S[1], 1)

\* build(rank, ..., step, ..., SVD_initial_guess, SVD_rank, ...) is entered: to
\* the spectral seed if the engine is empty and seeding is asked for, else to
\* the for loop
CallBuild(rank, step, svd, svd_rank) ==
  /\ bld' = [NoBld EXCEPT !.rank = rank, !.step = step, !.SVD_initial_guess = svd,
                          !.SVD_rank = svd_rank, !.i = ForInit(A)]
  /\ pc' = IF A = <<>> /\ svd THEN "build_seed" ELSE "build_for"

\* ALS(rank, ...) is entered from `site`: count = 0, matlab = fast_pI
CallALS(rank, site) ==
  /\ als' = [NoAls EXCEPT !.rank = rank, !.matlab = call.fast_pI, !.site = site]
  /\ pc' = "ALS"

(* --------------------------- public operations ------------------------ *)
\* compute_rank validating with `rank < 0` in place of `rank <= 0`
ComputeRankCheck_strict(rank, svd, svd_rank) ==
  IF rank < 0 THEN "InvalidArgument"
  ELSE IF svd /\ svd_rank > rank THEN "InvalidArgument"
  ELSE "ok"
\* compute_rank without the test of SVD_rank against rank
ComputeRankCheck_nosvd(rank, svd, svd_rank) ==
  IF rank <= 0 THEN "InvalidArgument" ELSE "ok"
\* the validation of compute_rank: which exception, if any
ComputeRankCheck(rank, svd, svd_rank) ==
  IF rank <= 0 THEN "InvalidArgument"
  ELSE IF svd /\ svd_rank > rank THEN "InvalidArgument"
  ELSE "ok"

compute_rank(rank, step, svd, svd_rank, max_als, fast_pI, calculate_epsilon) ==
  /\ pc = "idle"
  /\ ~seed_failed
  /\ num_ALS <= MaxNumALS
  /\ call' = [NoCall EXCEPT !.op = "compute_rank", !.rank = rank, !.step = step,
                            !.SVD_initial_guess = svd, !.SVD_rank = svd_rank,
                            !.max_als = max_als, !.fast_pI = fast_pI,
                            !.calculate_epsilon = calculate_epsilon]
  /\ IF ComputeRankCheck(rank, svd, svd_rank) # "ok"
       THEN /\ Throw(ComputeRankCheck(rank, svd, svd_rank))
            /\ UNCHANGED <<engine, drv, seed_failed, it>>
       ELSE /\ drv' = [NewDrv EXCEPT !.epsilon = -1]
            /\ CallBuild(rank, step, svd, svd_rank)
            /\ ret' = NoRet
            /\ als' = NoAls
            /\ UNCHANGED <<engine, seed_failed, it>>

\* compute_rank: build has returned
compute_rank_return ==
  /\ pc = "build_ret"
  /\ call.op = "compute_rank"
  /\ Return(drv.epsilon)
  /\ UNCHANGED <<engine, call, drv, seed_failed, it>>

\* the first rank compute_error builds
ComputeErrorRank(svd, svd_rank) ==
  IF A = <<>> THEN (IF svd THEN svd_rank ELSE 1) ELSE extent(At(0), 0)

compute_error(tcutCP, step, max_rank, svd, svd_rank, max_als, fast_pI) ==
  /\ pc = "idle"
  /\ ~seed_failed
  /\ num_ALS <= MaxNumALS
  /\ call' = [NoCall EXCEPT !.op = "compute_error", !.tcutCP = tcutCP, !.step = step,
                            !.max_rank = max_rank, !.SVD_initial_guess = svd,
                            !.SVD_rank = svd_rank, !.max_als = max_als,
                            !.fast_pI = fast_pI, !.calculate_epsilon = TRUE]
  /\ drv' = [NewDrv EXCEPT !.rank = ComputeErrorRank(svd, svd_rank),
                          !.epsilon = tcutCP + 1, !.cols0 = Cols]
  /\ pc' = "ce_while"
  /\ ret' = NoRet
  /\ bld' = NoBld
  /\ als' = NoAls
  /\ UNCHANGED <<engine, seed_failed, it>>

\* compute_error: while (epsilon > tcutCP && rank < max_rank) build(rank, ...)
compute_error_while ==
  /\ pc = "ce_while"
  /\ IF drv.epsilon > call.tcutCP /\ drv.rank < call.max_rank
       THEN /\ CallBuild(drv.rank, call.step, call.SVD_initial_guess, call.SVD_rank)
            /\ drv' = [drv EXCEPT !.cols0 = Cols]
            /\ UNCHANGED <<ret, als>>
       ELSE /\ Return(drv.epsilon)
            /\ UNCHANGED drv
  /\ UNCHANGED <<engine, call, seed_failed, it>>

\* compute_error: build has returned; rank++
compute_error_next ==
  /\ pc = "build_ret"
  /\ call.op = "compute_error"
  /\ drv' = [drv EXCEPT !.rank = @ + 1]
  /\ pc' = "ce_while"
  /\ UNCHANGED <<engine, call, ret, bld, als, seed_failed, it>>

\* the validation of compute_geometric
ComputeGeometricCheck(desired_rank, geometric_step, svd, svd_rank) ==
  IF geometric_step <= 0 THEN "InvalidArgument"
  ELSE IF svd /\ svd_rank > desired_rank THEN "InvalidArgument"
  ELSE "ok"

compute_geometric(desired_rank, geometric_step, svd, svd_rank, max_als, fast_pI, calculate_epsilon) ==
  /\ pc = "idle"
  /\ ~seed_failed
  /\ num_ALS <= MaxNumALS
  /\ call' = [NoCall EXCEPT !.op = "compute_geometric", !.rank = desired_rank,
                            !.step = geometric_step, !.SVD_initial_guess = svd,
                            !.SVD_rank = svd_rank, !.max_als = max_als,
                            !.fast_pI = fast_pI, !.calculate_epsilon = calculate_epsilon]
  /\ IF ComputeGeometricCheck(desired_rank, geometric_step, svd, svd_rank) # "ok"
       THEN /\ Throw(ComputeGeometricCheck(desired_rank, geometric_step, svd, svd_rank))
            /\ UNCHANGED <<engine, drv, seed_failed, it>>
       ELSE /\ drv' = [NewDrv EXCEPT !.epsilon = -1,
                                    !.rank = IF svd THEN svd_rank ELSE 1]
            /\ pc' = "cg_while"
            /\ ret' = NoRet
            /\ bld' = NoBld
            /\ als' = NoAls
            /\ UNCHANGED <<engine, seed_failed, it>>

\* compute_geometric: while (rank <= desired_rank && rank < max_als) build(rank, ...)
compute_geometric_while ==
  /\ pc = "cg_while"
  /\ IF drv.rank <= call.rank /\ drv.rank < call.max_als
       THEN /\ CallBuild(drv.rank, call.step, call.SVD_initial_guess, call.SVD_rank)
            /\ drv' = [drv EXCEPT !.cols0 = Cols]
            /\ UNCHANGED <<ret, als>>
       ELSE /\ Return(drv.epsilon)
            /\ UNCHANGED drv
  /\ UNCHANGED <<engine, call, seed_failed, it>>

\* compute_geometric: build has returned; rank++ or rank *= geometric_step
compute_geometric_next ==
  /\ pc = "build_ret"
  /\ call.op = "compute_geometric"
  /\ drv' = [drv EXCEPT !.rank = IF call.step <= 1 THEN @ + 1 ELSE @ * call.step]
  /\ pc' = "cg_while"
  /\ UNCHANGED <<engine, call, ret, bld, als, seed_failed, it>>

\* get_factor_matrices without its test of A.empty()
GetFactorsCheck_always == "ok"
\* get_factor_matrices, line 331: if (!A.empty()) return A; else exception
GetFactorsCheck == IF A # <<>> THEN "ok" ELSE "NotReady"
\* reconstruct, line 345: if (A.empty()) exception
ReconstructCheck == IF A = <<>> THEN "NotReady" ELSE "ok"

get_factor_matrices ==
  /\ pc = "idle"
  /\ call' = [NoCall EXCEPT !.op = "get_factor_matrices"]
  /\ IF GetFactorsCheck = "ok"
       THEN ret' = [NoRet EXCEPT !.status = "returned", !.factors = A]
       ELSE ret' = [NoRet EXCEPT !.status = GetFactorsCheck]
  /\ pc' = "done"
  /\ drv' = NewDrv
  /\ UNCHANGED <<engine, bld, als, seed_failed, it>>

\* reconstruct, lines 356-358 and 377-379: a column with content v is multiplied
\* by its weight w and later by 1/w; exact tells that the two roundings
\* cancel.  A weight of zero gives 0 * (1/0).
Rescaled(exact, w, v) ==
  IF w \in {Tag("zero"), Tag("nan")} \/ v = Tag("nan") THEN Tag("nan")
  ELSE IF exact THEN v
  ELSE Tag("rsc")

\* reconstruct: A[0] is scaled by the weights and afterwards by their inverses
reconstruct(exact) ==
  /\ pc = "idle"
  /\ call' = [NoCall EXCEPT !.op = "reconstruct"]
  /\ IF ReconstructCheck # "ok"
       THEN /\ ret' = [NoRet EXCEPT !.status = ReconstructCheck]
            /\ pc' = "done"
            /\ UNCHANGED <<engine, bld, als>>
     ELSE IF ~ContainerOK(A) \/ extent(At(ndim), 0) < extent(At(0), 1)
       THEN Undefined /\ UNCHANGED engine
     ELSE /\ ret' = [NoRet EXCEPT !.status = "returned"]
          /\ pc' = "done"
          /\ A' = [A EXCEPT ![1] =
                     Tensor(@.ext, [k \in 1..Len(@.val) |->
                                      Rescaled(exact, At(ndim).val[k], @.val[k])])]
          /\ UNCHANGED <<tensor_ref_left, tensor_ref_right, symm_dims, ndimL, ndimR, ConvClass,
                         num_ALS, bld, als>>
  /\ drv' = NewDrv
  /\ UNCHANGED <<seed_failed, it>>


(* -------------------------------- build ------------------------------- *)
\* build, lines 426-536: the spectral seed of an empty engine.  gemm_ok tells
\* whether the product of the two reshaped reference tensors (line 462)
\* succeeds, info is the result of LAPACKE_dsyev in mode f.
build_seed(gemm_ok, info, f) ==
  /\ pc = "build_seed"
  /\ IF bld.SVD_rank = 0
       THEN Throw("InvalidArgument") /\ UNCHANGED <<engine, seed_failed, it>>
     ELSE IF ~RefsIntact \/ ~TRdimsInRange
       THEN Undefined /\ UNCHANGED <<engine, seed_failed, it>>
     ELSE IF ~gemm_ok
       THEN /\ tensor_ref_left' = FlattenFirst(tensor_ref_left)
            /\ tensor_ref_right' = FlattenFirst(tensor_ref_right)
            /\ Throw("CollaboratorFailure")
            /\ UNCHANGED <<A, symm_dims, ndimL, ndimR, ConvClass, num_ALS, seed_failed, it>>
     ELSE /\ tensor_ref_left' =
               RestoreRange(FlattenFirst(tensor_ref_left), tensor_ref_left.ext)
          /\ tensor_ref_right' =
               RestoreRange(FlattenFirst(tensor_ref_right), tensor_ref_right.ext)
          /\ IF info # 0
               THEN /\ A' = SeedPartial(f, bld.SVD_rank)
                    /\ seed_failed' = TRUE
                    /\ UNCHANGED it
                    /\ Throw("SeedFailure")
                    /\ UNCHANGED <<symm_dims, ndimL, ndimR, ConvClass, num_ALS>>
               ELSE /\ A' = SeedFactors(bld.SVD_rank)
                    /\ CallALS(bld.SVD_rank, "seed")
                    /\ UNCHANGED <<symm_dims, ndimL, ndimR, ConvClass, num_ALS, ret, bld, seed_failed, it>>
  /\ UNCHANGED <<call, drv>>

\* the factor set made by one pass of build's loop body at loop value i
BuildStep(S, i) == IF i = 0 THEN NewFactors(S, 0) ELSE ExtendFactors(S, 0, i + 1)

\* build, lines 542-607: one test of the for loop, its body up to the call of
\* ALS, or the code after the loop
build_for ==
  /\ pc = "build_for"
  /\ IF bld.i < bld.rank
       THEN IF ~RefsIntact \/ (bld.i # 0 /\ ~ContainerOK(A))
              THEN Undefined /\ UNCHANGED engine
              ELSE /\ A' = BuildStep(A, bld.i)
                   /\ bld' = [bld EXCEPT !.opt_in_for_loop = TRUE]
                   /\ CallALS(bld.i + 1, "loop")
                   /\ UNCHANGED <<tensor_ref_left, tensor_ref_right, symm_dims, ndimL,
                                  ndimR, ConvClass, num_ALS, ret>>
     ELSE IF factors_set /\ ~bld.opt_in_for_loop
       THEN CallALS(bld.rank, "final") /\ UNCHANGED <<engine, ret, bld>>
     ELSE pc' = "build_ret" /\ UNCHANGED <<engine, ret, bld, als>>
  /\ UNCHANGED <<call, drv, seed_failed, it>>

(* --------------------------------- ALS -------------------------------- *)
\* the ALS invocations made on behalf of the call so far, each with the index
\* of the convergence test it was given (converge_list[count] in the paneled
\* build, the one test of the other drivers) and its rank
ALSLogged == Append(drv.als_log, <<drv.count, als.rank>>)

\* where control goes when ALS returns to `site`
ALSReturn ==
  CASE als.site = "seed" -> /\ bld' = [bld EXCEPT !.i = ForInit(A)]
                            /\ pc' = "build_for"
                            /\ drv' = [drv EXCEPT !.als_calls = @ + 1, !.als_log = ALSLogged]
    [] als.site = "loop" -> /\ bld' = [bld EXCEPT !.i = @ + bld.step]
                            /\ pc' = "build_for"
                            /\ drv' = [drv EXCEPT !.als_calls = @ + 1, !.als_log = ALSLogged]
    [] als.site = "final" -> /\ pc' = "build_ret"
                             /\ drv' = [drv EXCEPT !.als_calls = @ + 1, !.als_log = ALSLogged]
                             /\ UNCHANGED bld
    [] als.site = "panel" -> /\ drv' = [drv EXCEPT !.count = @ + 1, !.als_calls = @ + 1, !.als_log = ALSLogged]
                             /\ pc' = "ptb_while"
                             /\ UNCHANGED bld

\* the sweeps ALS adds to num_ALS when it returns
SweepsDone == als.count

\* a sweep loop that tests the sweep cap only
ALSContinue_capOnly == als.count < call.max_als
\* ALS, line 636: while (count < max_als && !is_converged)
ALSContinue == als.count < call.max_als /\ ~als.is_converged

\* ALS, line 636 and 656-660: the test of the while loop; on exit num_ALS += count
\* (the computation of epsilon is commented out, so epsilon is not written)
ALS_while ==
  /\ pc = "ALS"
  /\ IF ALSContinue
       THEN /\ als' = [als EXCEPT !.count = @ + 1, !.i = 0]
            /\ pc' = "ALS_mode"
            /\ UNCHANGED <<num_ALS, bld, drv>>
       ELSE /\ num_ALS' = num_ALS + SweepsDone
            /\ ALSReturn
            /\ als' = NoAls
  /\ UNCHANGED <<A, tensor_ref_left, tensor_ref_right, symm_dims, ndimL, ndimR, ConvClass,
                 call, ret, seed_failed, it>>

\* what the sweep does with mode i, from symm_dims[i]
ModeKind(i) ==
  IF symm_dims[i] = i THEN "direct"
  ELSE IF symm_dims[i] < i THEN "alias"
  ELSE "invalid"

\* a sweep that skips an aliased mode instead of copying into it
Alias_skip(S, i) == S
\* ALS, line 645: A[i] = A[tmp]
Alias(S, i) == [S EXCEPT ![i + 1] = S[symm_dims[i] + 1]]

\* ALS, lines 638-650: mode i of the sweep
ALS_mode(info, fail) ==
  /\ pc = "ALS_mode"
  /\ LET i == als.i
         next == IF i + 1 = ndim THEN "ALS_conv" ELSE "ALS_mode"
     IN CASE ModeKind(i) = "direct" ->
               IF ~DirectShapesOK(i, als.rank)
                 THEN Undefined /\ UNCHANGED <<A, tensor_ref_left, tensor_ref_right>>
                 ELSE LET refs == RefsAfterDirect(i, fail)
                          d == direct(i, als.rank, als.matlab, info, fail # "svd", als.count)
                      IN /\ tensor_ref_left' = refs[1]
                         /\ tensor_ref_right' = refs[2]
                         /\ IF fail \in {"gemm1", "gemm2"}
                              THEN Throw("CollaboratorFailure") /\ UNCHANGED A
                            ELSE IF d.status # "ok"
                              THEN Throw(d.status) /\ UNCHANGED A
                            ELSE /\ A' = d.A
                                 /\ als' = [als EXCEPT !.matlab = d.matlab, !.i = i + 1,
                                                       !.solver = d.solver,
                                                       !.handed = d.test.handed,
                                                       !.MtKRP = d.test.MtKRP]
                                 /\ pc' = next
                                 /\ UNCHANGED <<ret, bld>>
          [] ModeKind(i) = "alias" ->
               \* a negative tmp passes tmp < i: A[tmp] is outside the vector
               IF symm_dims[i] < 0
                 THEN Undefined /\ UNCHANGED <<A, tensor_ref_left, tensor_ref_right>>
                 ELSE /\ A' = Alias(A, i)
                      /\ als' = [als EXCEPT !.i = i + 1]
                      /\ pc' = next
                      /\ UNCHANGED <<ret, bld, tensor_ref_left, tensor_ref_right>>
          [] ModeKind(i) = "invalid" ->
               Throw("InvalidSymmetry") /\ UNCHANGED <<A, tensor_ref_left, tensor_ref_right>>
  /\ UNCHANGED <<symm_dims, ndimL, ndimR, ConvClass, num_ALS, call, drv, seed_failed, it>>

\* ALS, line 652: is_converged = converge_test(A)
ALS_converge(c) ==
  /\ pc = "ALS_conv"
  /\ als' = [als EXCEPT !.is_converged = c]
  /\ pc' = "ALS"
  /\ UNCHANGED <<engine, call, ret, drv, bld, seed_failed, it>>


(* ------------------------- paneled_tucker_build ----------------------- *)
Max2(a, b) == IF a > b THEN a ELSE b
RECURSIVE MaxOver(_, _)
MaxOver(seq, k) == IF k > Len(seq) THEN 0 ELSE Max2(seq[k], MaxOver(seq, k + 1))
\* lines 253-261: the largest extent of both reference tensors
MaxDim == Max2(MaxOver(tensor_ref_left.ext, 1), MaxOver(tensor_ref_right.ext, 1))

\* a panel that does not widen the factors
RankNew_same(rank, RankStep2, max_dim) == rank
\* line 275: rank_new = rank + RankStep * max_dim, truncated; RankStep in halves
RankNew(rank, RankStep2, max_dim) == rank + ((RankStep2 * max_dim) \div 2)

\* normCol(int factor): the columns of A[factor] are divided by their norms
NormTag(t) == IF t = Tag("rnd") THEN Tag("nrnd") ELSE t
normCol(S, factor) ==
  [S EXCEPT ![factor + 1] = Tensor(@.ext, [k \in 1..Len(@.val) |-> NormTag(@.val[k])])]

\* lines 276-312: a later panel widens every factor from rank to rank_new
\* columns by rotating the container, and normalises the front after each mode
RECURSIVE PanelExtend(_, _, _, _)
PanelExtend(S, i, rank, rank_new) ==
  IF i = ndim THEN S
  ELSE LET row_extent == extent(S[1], 0)
           b == Matrix(row_extent,
                       [k \in 1..rank_new |-> IF k <= rank THEN S[1].val[k] ELSE Tag("rnd")])
           S1 == Append(Tail(S), b)
           lam == Vector([k \in 1..rank_new |->
                            IF k <= extent(S1[1], 0) THEN S1[1].val[k] ELSE b.val[k]])
           S2 == IF i + 1 = ndim THEN Append(Tail(S1), lam) ELSE S1
       IN PanelExtend(normCol(S2, 0), i + 1, rank, rank_new)

\* the validation of paneled_tucker_build; tests is converge_list.size()
PanelCheck(RankStep2, panels, tests) ==
  IF RankStep2 <= 0 THEN "InvalidArgument"
  ELSE IF tests < panels THEN "InvalidArgument"
  ELSE "ok"

paneled_tucker_build(RankStep2, panels, tests, max_als, fast_pI, calculate_epsilon) ==
  /\ pc = "idle"
  /\ ~seed_failed
  /\ num_ALS <= MaxNumALS
  /\ Max2(Cols, MaxDim) + (panels - 1) * (RankNew(0, RankStep2, MaxDim)) <= MaxCols
  /\ call' = [NoCall EXCEPT !.op = "paneled_tucker_build", !.RankStep2 = RankStep2,
                            !.panels = panels, !.tests = tests, !.max_als = max_als,
                            !.fast_pI = fast_pI, !.calculate_epsilon = calculate_epsilon]
  /\ IF PanelCheck(RankStep2, panels, tests) # "ok"
       THEN /\ Throw(PanelCheck(RankStep2, panels, tests))
            /\ UNCHANGED drv
       ELSE /\ drv' = [NewDrv EXCEPT !.epsilon = -1, !.max_dim = MaxDim]
            /\ pc' = "ptb_while"
            /\ ret' = NoRet
            /\ bld' = NoBld
            /\ als' = NoAls
  /\ UNCHANGED <<engine, seed_failed, it>>

\* lines 263-314: while (count < panels): panel 0 is build with the spectral
\* seed, a later panel widens the factors and calls ALS
paneled_tucker_build_while ==
  /\ pc = "ptb_while"
  /\ IF drv.count >= call.panels
       THEN Return(drv.epsilon) /\ UNCHANGED engine
     ELSE IF drv.count = 0
       THEN /\ CallBuild(drv.max_dim, 1, TRUE, drv.max_dim)
            /\ UNCHANGED <<engine, ret, als>>
     ELSE IF ~ContainerOK(A)
       THEN Undefined /\ UNCHANGED engine
     ELSE LET rank == extent(At(0), 1)
              rank_new == RankNew(rank, call.RankStep2, drv.max_dim)
          IN /\ A' = PanelExtend(A, 0, rank, rank_new)
             /\ CallALS(rank_new, "panel")
             /\ UNCHANGED <<tensor_ref_left, tensor_ref_right, symm_dims, ndimL, ndimR, ConvClass,
                            num_ALS, ret, bld>>
  /\ UNCHANGED <<call, drv, seed_failed, it>>

\* panel 0: build has returned; count++
paneled_tucker_build_next ==
  /\ pc = "build_ret"
  /\ call.op = "paneled_tucker_build"
  /\ drv' = [drv EXCEPT !.count = @ + 1]
  /\ pc' = "ptb_while"
  /\ UNCHANGED <<engine, call, ret, bld, als, seed_failed, it>>

\* the caller has taken the result or caught the exception: the engine is
\* ready for the next public call.  An engine whose collaborator failed in the
\* middle of a build is not used again.
resume ==
  /\ pc = "done"
  /\ ret.status \notin {"CollaboratorFailure", "ComputationFailure"}
  /\ pc' = "idle"
  /\ call' = NoCall
  /\ ret' = NoRet
  /\ drv' = NoDrv
  /\ UNCHANGED <<engine, bld, als, seed_failed, it>>

(* ---------------------------- specification --------------------------- *)
Next ==
  \/ \E rank \in RankArgs, step \in StepArgs, svd \in SvdArgs, max_als \in MaxAlsArgs,
        fl \in FlagArgs :
       compute_rank(rank, step, svd[1], svd[2], max_als, fl[1], fl[2])
  \/ compute_rank_return
  \/ \E tcut \in TcutArgs, step \in StepArgs, max_rank \in RankArgs, svd \in SvdLoopArgs,
        max_als \in MaxAlsArgs :
       compute_error(tcut, step, max_rank, svd[1], svd[2], max_als, TRUE)
  \/ compute_error_while
  \/ compute_error_next
  \/ \E rank \in RankArgs, step \in GeoStepArgs, svd \in SvdLoopArgs,
        max_als \in MaxAlsArgs :
       compute_geometric(rank, step, svd[1], svd[2], max_als, TRUE, FALSE)
  \/ compute_geometric_while
  \/ compute_geometric_next
  \/ \E rs \in RankStepArgs, panels \in PanelArgs, short \in {0, 1},
        max_als \in MaxAlsArgs :
       paneled_tucker_build(rs, panels, panels - short, max_als, TRUE, FALSE)
  \/ paneled_tucker_build_while
  \/ paneled_tucker_build_next
  \/ get_factor_matrices
  \/ \E exact \in BOOLEAN : reconstruct(exact)
  \/ \E sf \in SeedFaults : build_seed(sf[1], sf[2], sf[3])
  \/ build_for
  \/ ALS_while
  \/ \E ft \in DirectFaults : ALS_mode(ft[1], ft[2])
  \/ \E c \in BOOLEAN : ALS_converge(c)
  \/ resume

Spec == Init /\ [][Next]_vars

(* ----------------------- NDIterator on its own ----------------------- *)
\* the steps handed to += and -=
Diffs == (0 - MaxDiff)..MaxDiff

\* the engine's variables while an iterator is exercised
rest == <<A, tensor_ref_left, tensor_ref_right, symm_dims, ndimL, ndimR, ConvClass,
          num_ALS, pc, call, ret, drv, bld, als, seed_failed>>

\* NDIterator(start, shape) over one of the shapes
IterInit ==
  /\ \E shape \in Shapes : it = NDIterator(shape)
  /\ A = <<>>
  /\ tensor_ref_left = Tensor(ZeroPair.L, <<Tag("data")>>)
  /\ tensor_ref_right = Tensor(ZeroPair.R, <<Tag("data")>>)
  /\ symm_dims = [i \in 0..1 |-> i]
  /\ ndimL = 2
  /\ ndimR = 2
  /\ ConvClass = "NormCheck"
  /\ num_ALS = 0
  /\ pc = "idle"
  /\ call = NoCall
  /\ ret = NoRet
  /\ drv = NoDrv
  /\ bld = NoBld
  /\ als = NoAls
  /\ seed_failed = FALSE

\* operator++, lines 235-239
PreIncrement ==
  /\ it' = [increment(it) EXCEPT !.op = "++"]
  /\ UNCHANGED rest
\* operator--, lines 252-256
PreDecrement ==
  /\ it' = [decrement(it) EXCEPT !.op = "--"]
  /\ UNCHANGED rest
\* operator+=, lines 281-285
PlusAssign(n) ==
  /\ it' = [diff_index(it, n) EXCEPT !.op = "+="]
  /\ UNCHANGED rest
\* operator-=, lines 294-298
MinusAssign(n) ==
  /\ it' = [diff_index(it, 0 - n) EXCEPT !.op = "-="]
  /\ UNCHANGED rest

IterNext ==
  \/ PreIncrement
  \/ PreDecrement
  \/ \E n \in Diffs : PlusAssign(n)
  \/ \E n \in Diffs : MinusAssign(n)

IterSpec == IterInit /\ [][IterNext]_vars

(* ================================ claims =============================== *)
\* the column count of every factor matrix of a well-formed container is c
AllCols(c) == \A k \in 1..ndim : extent(A[k], 1) = c
\* ndim matrices and a weight vector, all with the same number R of columns
WellFormed ==
  /\ ContainerOK(A)
  /\ AllCols(Cols)
  /\ extent(A[ndim + 1], 0) = Cols

\* C1: a compute_rank call with rank <= 0 and a compute_geometric call with
\* geometric_step <= 0 end at once with InvalidArgument, and the factor set,
\* num_ALS and both reference tensors are what they were before the call,
\* whether the engine was empty or not.
C1_InvalidArgumentNoMutation ==
  [][ (/\ pc = "idle"
       /\ \/ call'.op = "compute_rank" /\ call'.rank <= 0
          \/ call'.op = "compute_geometric" /\ call'.step <= 0)
      => (/\ pc' = "done"
          /\ ret'.status = "InvalidArgument"
          /\ UNCHANGED engine) ]_vars
\* a compute_rank call with rank <= 0 was rejected on an engine holding factors
\* that ALS has already optimised
C1_Witness ==
  /\ pc = "done"
  /\ call.op = "compute_rank"
  /\ call.rank <= 0
  /\ ret.status = "InvalidArgument"
  /\ A # <<>>
  /\ num_ALS > 0

\* C2 as stated: every compute_rank call with SVD_rank > rank ends with
\* InvalidArgument, whatever SVD_initial_guess is; in particular no such call
\* returns normally.
C2_Original ==
  (pc = "done" /\ call.op = "compute_rank" /\ call.SVD_rank > call.rank)
    => ret.status # "returned"
\* C2: a compute_rank call with SVD_initial_guess = true and SVD_rank > rank
\* ends at once with InvalidArgument and changes nothing; with
\* SVD_initial_guess = false and rank > 0 the call is accepted whatever
\* SVD_rank is, and enters build.
C2_SvdRankRejectedOnlyWhenSeeding ==
  [][ (pc = "idle" /\ call'.op = "compute_rank")
      => /\ (call'.SVD_initial_guess /\ call'.SVD_rank > call'.rank)
              => (pc' = "done" /\ ret'.status = "InvalidArgument" /\ UNCHANGED engine)
         /\ (~call'.SVD_initial_guess /\ call'.rank > 0)
              => (pc' = "build_for" /\ ret'.status = "none") ]_vars
\* a seeded compute_rank call with a positive rank below SVD_rank was rejected
C2_Witness ==
  /\ pc = "done"
  /\ call.op = "compute_rank"
  /\ call.SVD_initial_guess
  /\ call.rank > 0
  /\ call.SVD_rank > call.rank
  /\ ret.status = "InvalidArgument"

C4_AliasedModesIdentical ==
  (pc = "ALS_conv")
    => \A i \in 0..(ndim - 1) : symm_dims[i] < i => At(i) = At(symm_dims[i])
\* the end of the second sweep over two columns with the chain 2 -> 1 -> 0
C4_Witness ==
  /\ pc = "ALS_conv"
  /\ ndim = 3
  /\ symm_dims[1] = 0
  /\ symm_dims[2] = 1
  /\ als.count = 2
  /\ Cols = 2

C6_Original ==
  (/\ pc = "done"
   /\ call.op = "compute_rank"
   /\ ret.status = "returned"
   /\ ~call.SVD_initial_guess
   /\ drv.cols0 = 0)
    => (A # <<>> /\ AllCols(call.rank))

\* C7 as stated: compute_rank returns -1 when calculate_epsilon is false and a
\* non-negative error when it is true.
C7_Original ==
  (pc = "done" /\ call.op = "compute_rank" /\ ret.status = "returned")
    => IF call.calculate_epsilon THEN ret.value >= 0 ELSE ret.value = -1

\* C8 as stated: when compute_error returns with factors of fewer than
\* max_rank columns, the error it returns is at most tcutCP.
C8_Original ==
  (/\ pc = "done"
   /\ call.op = "compute_error"
   /\ ret.status = "returned"
   /\ A # <<>>
   /\ Cols < call.max_rank)
    => ret.value <= call.tcutCP

\* C9 as stated: when compute_error stops because of the cap (the error is
\* still above tcutCP), the factor matrices have max_rank columns; max_rank is
\* at least 1 and at least the column count the call started from.
C9_Original ==
  (/\ pc = "done"
   /\ call.op = "compute_error"
   /\ ret.status = "returned"
   /\ ret.value > call.tcutCP
   /\ call.max_rank >= 1
   /\ drv.cols0 <= call.max_rank)
    => (A # <<>> /\ AllCols(call.max_rank))

\* C10 as stated: every round of compute_error that starts from existing
\* factors leaves them with exactly `step` more columns.
C10_Original ==
  (pc = "build_ret" /\ call.op = "compute_error" /\ drv.cols0 >= 1)
    => Cols = drv.cols0 + call.step

\* C11 as stated: a compute_geometric call with geometric_step > 1 made on an
\* empty engine runs a build round at every target rank r0, r0*g, r0*g^2, ...
\* up to desired_rank whatever max_als is (so it returns only with the next
\* target above desired_rank), and after each round every factor matrix has
\* exactly the round's target number of columns.
C11_Original ==
  (call.op = "compute_geometric" /\ call.step > 1 /\ drv.cols_call = 0)
    => /\ pc = "build_ret" => (A # <<>> /\ AllCols(drv.rank))
       /\ (pc = "done" /\ ret.status = "returned") => drv.rank > call.rank

\* C12 as stated: every compute_geometric call that passes its validation
\* comes to an end, whether the engine was empty or not.  The loop ends only
\* by its variable rank passing desired_rank or max_als, so every round has to
\* raise rank: a round that returns to the loop test with the same rank and
\* has run no ALS is followed by the same round for ever.
C12_Original ==
  [][ (pc = "build_ret" /\ call.op = "compute_geometric")
      => (drv'.rank > drv.rank \/ drv.als_calls > 0) ]_vars

\* C13 as stated: a compute_rank call whose target rank is the column count
\* the factor set already has returns after exactly one ALS optimisation.
C13_Original ==
  (/\ pc = "done"
   /\ call.op = "compute_rank"
   /\ ret.status = "returned"
   /\ drv.cols_call >= 1
   /\ drv.cols_call = call.rank)
    => drv.als_calls = 1

\* C14: an ALS invocation with max_als >= 1 that is not aborted runs between
\* one and max_als sweeps.  A sweep starts only while count < max_als and the
\* predicate has not returned true; it visits the modes 0, 1, ..., ndim-1 once
\* each in this order and is followed by exactly one evaluation of the
\* convergence predicate, which changes no factor; ALS returns after the first
\* sweep the predicate accepts or after sweep max_als, normally, with the
\* factors as the last sweep left them and num_ALS raised by the sweeps run.
C14_SweepLoop ==
  [][ /\ (pc = "ALS" /\ pc' = "ALS_mode")
           => /\ als.count < call.max_als
              /\ ~als.is_converged
              /\ als'.count = als.count + 1
              /\ als'.i = 0
      /\ (pc = "ALS_mode" /\ pc' = "ALS_mode")
           => (als'.i = als.i + 1 /\ als'.i < ndim /\ als'.count = als.count)
      /\ (pc # "ALS_conv" /\ pc' = "ALS_conv")
           => (pc = "ALS_mode" /\ als.i = ndim - 1 /\ als'.count = als.count)
      /\ (pc = "ALS_conv")
           => (pc' = "ALS" /\ als'.count = als.count /\ A' = A)
      /\ (pc = "ALS" /\ pc' # "ALS_mode")
           => /\ call.max_als >= 1 => als.count >= 1
              /\ als.count <= call.max_als
              /\ als.is_converged \/ als.count = call.max_als
              /\ pc' \in {"build_for", "build_ret", "ptb_while"}
              /\ A' = A
              /\ num_ALS' = num_ALS + als.count ]_vars
\* ALS is about to return after max_als = 2 sweeps, none accepted
C14_Witness ==
  /\ pc = "ALS"
  /\ call.max_als = 2
  /\ als.count = 2
  /\ ~als.is_converged

\* C15 as stated: when the sweep comes to a mode i whose symmetry-map value
\* is neither i nor an index in 0..i-1 (greater than i, or negative), it ends
\* with the invalid-symmetry error and no factor is read or written.
C15_Original ==
  [][ (pc = "ALS_mode" /\ symm_dims[als.i] \notin 0..als.i)
      => (pc' = "done" /\ ret'.status = "InvalidSymmetry" /\ A' = A) ]_vars

\* C16: when a public operation returns normally, both reference tensors have
\* the number of modes, the extents and the elements they had when it was
\* called: every reshape made on the way has been undone
C16_ReferencesRestored ==
  (pc = "done" /\ ret.status = "returned")
    => (RefsIntact /\ <<tensor_ref_left, tensor_ref_right>> = drv.refs0)
\* a build on the three-mode left tensor has returned after at least one sweep,
\* in which the tensor was reshaped to a matrix and back
C16_Witness ==
  /\ pc = "done" /\ ret.status = "returned" /\ call.op = "compute_rank"
  /\ drv.als_calls >= 1 /\ num_ALS >= 1
  /\ order(tensor_ref_left) = 3
  /\ FlattenFirst(tensor_ref_left) # tensor_ref_left

\* C17: when a collaborator call fails while a reference tensor is reshaped,
\* the tensor is back in the shape it had at the call by the time the error
\* leaves the operation
C17_Original ==
  (pc = "done" /\ ret.status = "CollaboratorFailure")
    => <<tensor_ref_left, tensor_ref_right>> = drv.refs0

\* C18: a mode update entered with the square solve enabled never ends with
\* the failure of that solve: either the sweep goes on with the factor of the
\* mode replaced by the normalised result of the update (of the solve, or of
\* the pseudo-inverse applied to the untouched MTTKRP, after which the solve is
\* switched off), or the operation aborts because the SVD or a contraction
\* failed
C18_SolveFallback ==
  [][ (pc = "ALS_mode" /\ ModeKind(als.i) = "direct" /\ als.matlab
       /\ DirectShapesOK(als.i, als.rank))
      => \/ /\ pc' \in {"ALS_mode", "ALS_conv"}
            /\ als'.i = als.i + 1
            /\ A'[als.i + 1].ext = <<ExtentOfMode(als.i), als.rank>>
            /\ \A k \in 1..als.rank :
                 A'[als.i + 1].val[k] =
                   Normalised(ZeroRefs, Poisoned(als.i), DirectTag(als.i, als.count))
         \/ /\ pc' = "done"
            /\ ret'.status \in {"ComputationFailure", "CollaboratorFailure"} ]_vars
\* the sweep goes on after a failed square solve: fast_pI was asked for, the
\* solve is switched off, and mode 0 holds the result of this sweep
C18_Witness ==
  /\ pc = "ALS_mode" /\ als.i = 1
  /\ call.fast_pI /\ ~als.matlab
  /\ At(0).val = Fill(als.rank, DirectTag(0, als.count))

\* C19: right after a mode update stores the new factor of mode n, every
\* column of that factor has 2-norm 1 (a column of NaN has not)
C19_Original ==
  [][ (pc = "ALS_mode" /\ ModeKind(als.i) = "direct" /\ pc' \in {"ALS_mode", "ALS_conv"})
      => \A k \in 1..Len(A'[als.i + 1].val) : A'[als.i + 1].val[k] # Tag("nan") ]_vars

\* C20: reconstruct leaves the factor set as it was: every factor matrix and
\* the weight vector equal their values before the call
C20_Original ==
  [][ (pc = "idle" /\ pc' = "done" /\ call'.op = "reconstruct"
       /\ ret'.status = "returned") => A' = A ]_vars

C21_PanelGrowth == (call.RankStep2 * drv.max_dim) \div 2
C23_Extends ==
  /\ pc' = "ALS"
  /\ \/ pc = "build_for" /\ bld.i # 0
     \/ pc = "ptb_while"
\* an old column after the widening: as it was in build, divided by its norm
\* in a later panel
C23_Kept(t) == IF pc = "ptb_while" THEN NormTag(t) ELSE t
\* C23, as stated: widening keeps every mode at its position and the weight
\* vector last; every factor keeps its rows and gets the new, larger column
\* count, its first columns are the old ones as they were when they were
\* copied (mode 0 is copied first, every other mode after the front of the
\* container was normalised in a later panel), and the old weights are the
\* first entries of the new weight vector
C23_Original ==
  [][ C23_Extends =>
        /\ Len(A') = ndim + 1
        /\ \A j \in 1..ndim :
             /\ order(A'[j]) = 2
             /\ extent(A'[j], 0) = extent(A[j], 0)
             /\ extent(A'[j], 1) = als'.rank
             /\ extent(A'[j], 1) > extent(A[j], 1)
             /\ \A k \in 1..extent(A[j], 1) :
                  A'[j].val[k] = IF j = 1 THEN A[j].val[k] ELSE C23_Kept(A[j].val[k])
        /\ order(A'[ndim + 1]) = 1
        /\ extent(A'[ndim + 1], 0) = als'.rank
        /\ \A k \in 1..extent(A[ndim + 1], 0) : A'[ndim + 1].val[k] = A[ndim + 1].val[k]
    ]_vars
\* C23, amended: as stated, but a later panel leaves the old columns of every
\* mode, mode 0 included, divided by their norms
C23_ExtensionKeepsModes ==
  [][ C23_Extends =>
        /\ Len(A') = ndim + 1
        /\ \A j \in 1..ndim :
             /\ order(A'[j]) = 2
             /\ extent(A'[j], 0) = extent(A[j], 0)
             /\ extent(A'[j], 1) = als'.rank
             /\ extent(A'[j], 1) > extent(A[j], 1)
             /\ \A k \in 1..extent(A[j], 1) : A'[j].val[k] = C23_Kept(A[j].val[k])
        /\ order(A'[ndim + 1]) = 1
        /\ extent(A'[ndim + 1], 0) = als'.rank
        /\ \A k \in 1..extent(A[ndim + 1], 0) : A'[ndim + 1].val[k] = A[ndim + 1].val[k]
    ]_vars
\* build has just widened a two-column factor set to three columns: the two
\* optimised columns of mode 0 are in front of the new random one
C23_Witness ==
  /\ pc = "ALS" /\ als.site = "loop" /\ als.count = 0 /\ als.rank = 3
  /\ At(0).val[1] # Tag("rnd") /\ At(0).val[2] # Tag("rnd") /\ At(0).val[3] = Tag("rnd")
  /\ At(ndim - 1).val[3] = Tag("rnd")

\* C24: for every mode update about to run on well-shaped factors, the walk
\* of direct keeps the number of elements in every reshape, reads every factor
\* inside its rows and `rank` columns, and ends with an (extent(n) x rank)
\* matrix
C24_Original ==
  (pc = "ALS_mode" /\ ModeKind(als.i) = "direct" /\ FactorShapesOK(als.i, als.rank))
    => LET w == HadamardWalk(als.i, als.rank)
       IN w.sizes_kept /\ w.in_range /\ w.shape = <<ExtentOfMode(als.i), als.rank>>

\* C25: a mode update made by direct hands contract_tensor to the convergence
\* test when that test is a FitCheck, before the solve touches it, so the test
\* receives the unsolved MTTKRP; a mode copied from its alias hands nothing
\* over, and a test of any other type never receives anything.
C25_HandOver ==
  [][ (pc = "ALS_mode" /\ pc' \in {"ALS_mode", "ALS_conv"} /\ als'.i = als.i + 1)
        => IF ConvClass = "FitCheck" /\ ModeKind(als.i) = "direct"
             THEN als'.handed = als.handed + 1 /\ als'.MtKRP = Tag("mttkrp")
           ELSE IF ConvClass = "FitCheck"
             THEN als'.handed = als.handed /\ als'.MtKRP = als.MtKRP
           ELSE als'.handed = 0 /\ als'.MtKRP = <<>> ]_vars
\* a sweep of a FitCheck engine whose direct solves all succeeded is complete
C25_Witness ==
  /\ pc = "ALS_conv"
  /\ ConvClass = "FitCheck"
  /\ als.matlab
  /\ als.handed = 2
  /\ als.MtKRP = Tag("mttkrp")

\* C26: no step of a public call that does not fail lowers the column count of
\* the factor matrices, and a build entered with a target rank that is not
\* above the column count, or that reaches its loop in that state after the
\* spectral seed, returns without changing the factor set or num_ALS.
C26_ColumnsKept ==
  [][ /\ (pc' # "undefined" /\ ret'.status \in {"none", "returned"}) => Cols' >= Cols
      /\ (pc = "build_for" /\ bld.rank <= Cols)
           => (pc' = "build_ret" /\ A' = A /\ num_ALS' = num_ALS) ]_vars
\* a second compute_rank at the rank the factors already have has left build
C26_Witness ==
  /\ pc = "build_ret"
  /\ call.op = "compute_rank"
  /\ ~bld.opt_in_for_loop
  /\ drv.cols_call >= 1
  /\ bld.rank <= drv.cols_call
  /\ Cols = drv.cols_call

\* C27: a mode update entered after the square solve has failed in this ALS
\* makes its factor with the pseudo-inverse alone and leaves matlab cleared;
\* no step of ALS changes the caller's fast_pI, and every ALS is entered with
\* matlab = fast_pI, so the next one tries the square solve again.
C27_FallbackSticks ==
  [][ /\ (pc = "ALS_mode" /\ ModeKind(als.i) = "direct" /\ ~als.matlab
          /\ pc' \in {"ALS_mode", "ALS_conv"})
           => (als'.solver = "pseudoInverse" /\ ~als'.matlab)
      /\ pc \in {"ALS", "ALS_mode", "ALS_conv"} => call'.fast_pI = call.fast_pI
      /\ (pc' = "ALS" /\ pc \notin {"ALS", "ALS_conv"})
           => (als'.matlab = call.fast_pI /\ als'.solver = "none") ]_vars
\* the second sweep of an ALS asked for fast_pI has updated its modes after a
\* failed square solve, the last of them with the pseudo-inverse alone
C27_Witness ==
  /\ pc = "ALS_conv"
  /\ call.fast_pI
  /\ ~als.matlab
  /\ als.solver = "pseudoInverse"
  /\ als.count = 2

\* C28: compute_error starts from the rank the engine has: the column count of
\* the factors it holds, whatever their row extents are, and on an empty
\* engine 1, or SVD_rank if spectral seeding is asked for.
C28_Original ==
  [][ (pc = "idle" /\ pc' = "ce_while")
        => drv'.rank = IF A = <<>>
                         THEN (IF call'.SVD_initial_guess THEN call'.SVD_rank ELSE 1)
                         ELSE Cols ]_vars

\* C29: when the spectral seed builds its extent table, every index the two
\* loops write lies in 0..ndim-1, every position is written exactly once, and
\* the table lists the extents of the free modes in mode order.
C29_Original ==
  (pc = "build_seed" /\ bld.SVD_rank # 0 /\ RefsIntact)
    => /\ \A w \in 1..Len(TRdimsWrites) : TRdimsWrites[w] \in 0..(ndim - 1)
       /\ \A k \in 0..(ndim - 1) :
            /\ Cardinality({w \in 1..Len(TRdimsWrites) : TRdimsWrites[w] = k}) = 1
            /\ TRdims[k] = ExtentOfMode(k)

RECURSIVE C30_Increments(_, _)
\* n applications of ++
C30_Increments(x, n) == IF n = 0 THEN x ELSE C30_Increments(increment(x), n - 1)
\* two iterators stand at the same position
C30_Same(x, y) == x.index = y.index /\ x.current = y.current

====
